---- MODULE Spec2Model ----
(***************************************************************************)
(* F1 2019 telemetry recorder: the Session State Tracker (Game.py) and the *)
(* two-thread capture pipeline (main.py): PacketReceiverThread (listener), *)
(* PacketRecorderThread (flush loop), PacketRecorder (dispatch and sink).  *)
(*                                                                         *)
(* Time is counted in whole seconds; Python's None is the empty tuple and  *)
(* a present value x of an optional field is the 1-tuple <<x>>.            *)
(***************************************************************************)
EXTENDS Integers, Sequences, FiniteSets, TLC

\* ------------------------------------------------------------------ bounds
\* Car slots of the per-car arrays (20 on the wire), scaled down.
MaxCars == 2
\* Entries of the marshalZones array (21 on the wire), scaled down.
MarshalZoneSlots == 2
\* The wall clock advances in steps of 30 seconds, MaxTicks times.
MaxTicks == 2
\* Distinct raw session ids the game sends.
MaxSessionUID == 2
\* Session boundaries followed by the history of identities (SpecGame).
MaxSessions == 2

\* ------------------------------------------------------- packet identifiers
\* PacketID of the telemetry library, as listed in main.py.
MOTION == 0
SESSION == 1
LAP_DATA == 2
EVENT == 3
PARTICIPANTS == 4
CAR_SETUPS == 5
CAR_TELEMETRY == 6
CAR_STATUS == 7

PacketIDs == {MOTION, SESSION, LAP_DATA, EVENT, PARTICIPANTS, CAR_SETUPS,
              CAR_TELEMETRY, CAR_STATUS}

None == <<>>
Some(x) == <<x>>

\* ------------------------------------------------------------ conversions
\* bytes.decode("utf-8") on the ASCII driver names used here: one character
\* per byte.
Chr(b) == CASE b = 72 -> "H" [] b = 86 -> "V" [] b = 76 -> "L" [] OTHER -> "?"
decode(bytes) == [i \in 1..Len(bytes) |-> Chr(bytes[i])]

\* time.strftime('%Y-%m-%dT%H:%M:%SZ'): second precision.
strftimeSeconds(time) == <<time \div 60, time % 60>>
\* time.strftime('%Y%m%d_%H%M'): minute precision, the seconds are dropped.
strftimeMinutes(time) == time \div 60

\* TrackIDs of the telemetry library (the tracks used here).
TrackIDs(trackId) == CASE trackId = 0 -> "Melbourne"
                       [] trackId = 1 -> "Paul Ricard"
                       [] OTHER -> "Shanghai"
\* str() of a small non-negative integer.
str(n) == CASE n = 0 -> "0" [] n = 1 -> "1" [] n = 2 -> "2" [] n = 3 -> "3"
            [] OTHER -> "n"

\* ---------------------------------------------------------------- packets
\* The raw driver names of the participants array: two arrays, so that a
\* later PARTICIPANTS packet can carry other names than an earlier one.
RawNames == <<<<72, 65>>, <<86, 69>>, <<76, 69>>>>
NameArrays == {[i \in 1..MaxCars |-> <<RawNames[((i + r) % 3) + 1][1]>>] : r \in 0..1}

SessionUIDs == 1..MaxSessionUID
\* (trackId, m_formula) pairs of the SESSION packets.
SessionKinds == {<<0, 0>>, <<1, 0>>, <<0, 1>>}

Header(id, uid, st) ==
  [packetFormat |-> 2019, packetVersion |-> 1, packetId |-> id,
   sessionUID |-> uid, sessionTime |-> st]

\* A decoded packet. Every packet carries all payload attributes, those of
\* other packet types at a default.
Packet(id, uid, st, trackId, formula, k, names) ==
  [header |-> Header(id, uid, st), trackId |-> trackId, m_formula |-> formula,
   numActiveCars |-> k, participants |-> names]

DefaultNames == CHOOSE n \in NameArrays : TRUE

\* The packets the game can send with header.sessionTime = st. The raw
\* session id varies on the SESSION packets; the other packets carry raw
\* id 1, which is or is not the one of the last SESSION packet.
PacketsAt(st) ==
  {Packet(id, 1, st, 0, 0, 0, DefaultNames) :
     id \in PacketIDs \ {SESSION, PARTICIPANTS}}
  \cup {Packet(SESSION, uid, st, sk[1], sk[2], 0, DefaultNames) :
     uid \in SessionUIDs, sk \in SessionKinds}
  \cup {Packet(PARTICIPANTS, 1, st, 0, 0, k, n) : k \in 1..MaxCars, n \in NameArrays}
  \cup {Packet(PARTICIPANTS, 1, st, 0, 0, 0, DefaultNames)}

\* The 4-element arrays (one entry per wheel) of the entries of a per-car
\* array.
WheelArrays(array) ==
  CASE array = "carTelemetryData" ->
         {"brakesTemperature", "tyresSurfaceTemperature", "tyresInnerTemperature",
          "tyresPressure", "surfaceType"}
    [] array = "carStatusData" -> {"tyresWear", "tyresDamage"}
    [] OTHER -> {}

\* packet.<array>[i].<a>: the four values of a wheel array of car slot i,
\* indices 0..3; a value is told by the place in the packet it was read from.
WheelArray(packet, array, i, a) ==
  [w \in 0..3 |-> <<packet.header.sessionTime, i, a, w>>]

\* The fields of car slot i (0-based) of a per-car array of the packet: a
\* dictionary by field name, the wheel arrays of the entry among them.
CarFields(packet, array, i) ==
  [name \in {"array", "slot", "sessionTime"} \cup WheelArrays(array) |->
     CASE name = "array" -> array
       [] name = "slot" -> i
       [] name = "sessionTime" -> packet.header.sessionTime
       [] OTHER -> WheelArray(packet, array, i, name)]
\* The fields of marshal zone i (0-based).
MarshalZoneFields(packet, i) ==
  [array |-> "marshalZones", slot |-> i, sessionTime |-> packet.header.sessionTime]
\* packet.fields of an aggregate packet, header (and marshalZones) deleted.
PacketFields(packet) ==
  [array |-> "packet", slot |-> 0, sessionTime |-> packet.header.sessionTime]

\* ------------------------------------------------------------------- Game
\* Game.__init__
GameInit == [drivers |-> <<>>, sessionID |-> None, sessionIDBrut |-> None, init |-> FALSE]

\* IsInitialized with "or" for "and": one of roster and identity suffices.
IsInitialized_Or(g) ==
  IF ~g.init
  THEN [g EXCEPT !.init = Len(g.drivers) > 0 \/ g.sessionID # None]
  ELSE g

\* Game.IsInitialized: the game after the call; its return value is the init
\* field of the result.
IsInitialized(g) ==
  IF ~g.init
  THEN [g EXCEPT !.init = Len(g.drivers) > 0 /\ g.sessionID # None]
  ELSE g

Record(measurement, tags, time, fields) ==
  [measurement |-> measurement, tags |-> tags, time |-> strftimeSeconds(time),
   fields |-> fields]

\* The tag dictionary of a per-driver record.
DriverTags(g, packet, driver) ==
  [sessionId |-> g.sessionID, sessionTime |-> packet.header.sessionTime,
   packetId |-> packet.header.packetId, driver |-> driver]
\* The tag dictionary of an aggregate record.
AggregateTags(g, packet) ==
  [sessionId |-> g.sessionID, sessionTime |-> packet.header.sessionTime,
   packetId |-> packet.header.packetId]

\* The loop with its index one ahead: the i-th record from car slot i + 1.
PerDriver_SlotAhead(g, packet, time, measurement, array) ==
  [i \in 1..Len(g.drivers) |->
     Record(measurement, DriverTags(g, packet, g.drivers[i]), time,
            CarFields(packet, array, i))]

\* The loop "for driver in self.drivers" shared by the per-driver methods:
\* one record per roster entry, the i-th from car slot i of the array.
PerDriver(g, packet, time, measurement, array) ==
  [i \in 1..Len(g.drivers) |->
     Record(measurement, DriverTags(g, packet, g.drivers[i]), time,
            CarFields(packet, array, i - 1))]

processMotion(g, packet, time) ==
  LET g1 == IsInitialized(g) IN
  IF ~g1.init THEN [game |-> g1, json |-> <<>>]
  ELSE [game |-> g1,
        json |-> Append(PerDriver(g1, packet, time, "MotionData", "carMotionData"),
                        Record("MyMotionData", AggregateTags(g1, packet), time,
                               PacketFields(packet)))]

processCarSetup(g, packet, time) ==
  LET g1 == IsInitialized(g) IN
  IF ~g1.init THEN [game |-> g1, json |-> <<>>]
  ELSE [game |-> g1,
        json |-> PerDriver(g1, packet, time, "CarSetupData", "carSetups")]

\* fields[key] = value and del fields[key] of a Python dict.
SetItem(fields, key, value) ==
  [name \in DOMAIN fields \cup {key} |-> IF name = key THEN value ELSE fields[name]]
DelItem(fields, key) ==
  [name \in DOMAIN fields \ {key} |-> fields[name]]

\* The four assignments fields[a + "_RL"] = values[0], ... of one wheel
\* array a, in the order of the code.
SetWheels(fields, a, values) ==
  SetItem(SetItem(SetItem(SetItem(fields, a \o "_RL", values[0]),
                          a \o "_RR", values[1]),
                  a \o "_FL", values[2]),
          a \o "_FR", values[3])

\* The assignments with the indices of the front and the rear wheels
\* exchanged.
ExpandTelemetry_FrontFirst(packet, i) ==
  LET Swapped(a) == [w \in 0..3 |->
                       WheelArray(packet, "carTelemetryData", i, a)[(w + 2) % 4]]
      f0 == CarFields(packet, "carTelemetryData", i)
      f1 == SetWheels(f0, "brakesTemperature", Swapped("brakesTemperature"))
      f2 == SetWheels(f1, "tyresSurfaceTemperature", Swapped("tyresSurfaceTemperature"))
      f3 == SetWheels(f2, "tyresInnerTemperature", Swapped("tyresInnerTemperature"))
      f4 == SetWheels(f3, "tyresPressure", Swapped("tyresPressure"))
      f5 == SetWheels(f4, "surfaceType", Swapped("surfaceType"))
  IN  DelItem(DelItem(DelItem(DelItem(DelItem(f5, "surfaceType"), "tyresPressure"),
                              "tyresInnerTemperature"),
                      "tyresSurfaceTemperature"),
              "brakesTemperature")

\* The fields of the record of car slot i in processCarTelemetry: the
\* dictionary of the slot, the 20 assignments from the arrays of the packet,
\* the 5 deletions.
ExpandTelemetry(packet, i) ==
  LET Wheels(a) == WheelArray(packet, "carTelemetryData", i, a)
      f0 == CarFields(packet, "carTelemetryData", i)
      f1 == SetWheels(f0, "brakesTemperature", Wheels("brakesTemperature"))
      f2 == SetWheels(f1, "tyresSurfaceTemperature", Wheels("tyresSurfaceTemperature"))
      f3 == SetWheels(f2, "tyresInnerTemperature", Wheels("tyresInnerTemperature"))
      f4 == SetWheels(f3, "tyresPressure", Wheels("tyresPressure"))
      f5 == SetWheels(f4, "surfaceType", Wheels("surfaceType"))
  IN  DelItem(DelItem(DelItem(DelItem(DelItem(f5, "surfaceType"), "tyresPressure"),
                              "tyresInnerTemperature"),
                      "tyresSurfaceTemperature"),
              "brakesTemperature")

\* The fields of the record of car slot i in processCarStatus: the 8
\* assignments from the arrays held in the dictionary, the 2 deletions.
ExpandStatus(packet, i) ==
  LET f0 == CarFields(packet, "carStatusData", i)
      f1 == SetWheels(f0, "tyresWear", f0["tyresWear"])
      f2 == SetWheels(f1, "tyresDamage", f1["tyresDamage"])
  IN  DelItem(DelItem(f2, "tyresWear"), "tyresDamage")

processCarTelemetry(g, packet, time) ==
  LET g1 == IsInitialized(g) IN
  IF ~g1.init THEN [game |-> g1, json |-> <<>>]
  ELSE [game |-> g1,
        json |-> [i \in 1..Len(g1.drivers) |->
                    Record("CarTelemetryData", DriverTags(g1, packet, g1.drivers[i]),
                           time, ExpandTelemetry(packet, i - 1))]]

processCarStatus(g, packet, time) ==
  LET g1 == IsInitialized(g) IN
  IF ~g1.init THEN [game |-> g1, json |-> <<>>]
  ELSE [game |-> g1,
        json |-> [i \in 1..Len(g1.drivers) |->
                    Record("CarStatusData", DriverTags(g1, packet, g1.drivers[i]),
                           time, ExpandStatus(packet, i - 1))]]

processLap(g, packet, time) ==
  LET g1 == IsInitialized(g) IN
  IF ~g1.init THEN [game |-> g1, json |-> <<>>]
  ELSE [game |-> g1,
        json |-> PerDriver(g1, packet, time, "LapData", "lapData")]

\* mySessionId without the comparison of raw ids: recomputed on every packet.
mySessionId_Always(g, packet, time) ==
  [g EXCEPT !.sessionIDBrut = Some(packet.header.sessionUID),
            !.sessionID = Some(<<strftimeMinutes(time), TrackIDs(packet.trackId),
                                 str(packet.m_formula)>>)]

\* mySessionId that derives the identity once and only remembers the raw id
\* afterwards.
mySessionId_Once(g, packet, time) ==
  IF Some(packet.header.sessionUID) # g.sessionIDBrut
  THEN [g EXCEPT !.sessionIDBrut = Some(packet.header.sessionUID),
                 !.sessionID = IF g.sessionID = None
                               THEN Some(<<strftimeMinutes(time),
                                           TrackIDs(packet.trackId),
                                           str(packet.m_formula)>>)
                               ELSE g.sessionID]
  ELSE g

\* Game.mySessionId: the game after the call (its return value is the
\* sessionID field of the result).
mySessionId(g, packet, time) ==
  IF Some(packet.header.sessionUID) # g.sessionIDBrut
  THEN [g EXCEPT !.sessionIDBrut = Some(packet.header.sessionUID),
                 !.sessionID = Some(<<strftimeMinutes(time), TrackIDs(packet.trackId),
                                      str(packet.m_formula)>>)]
  ELSE g

\* processSession whose readiness test comes before mySessionId: the packet
\* that brings the identity is not yet answered with records.
processSession_TestFirst(g, packet, time) ==
  LET g0 == IsInitialized(g)
      g1 == mySessionId(g0, packet, time)
      dic == [sessionTime |-> packet.header.sessionTime, sessionId |-> g1.sessionID,
              packetId |-> packet.header.packetId,
              MarshalZoneId |-> <<"MarshalZone", str(MarshalZoneSlots - 1)>>]
  IN
  IF ~g1.init THEN [game |-> g1, json |-> <<>>]
  ELSE [game |-> g1,
        json |-> Append([i \in 1..MarshalZoneSlots |->
                           Record("MarshalZones", dic, time,
                                  MarshalZoneFields(packet, i - 1))],
                        Record("SessionData", AggregateTags(g1, packet), time,
                               PacketFields(packet)))]

\* Game.processSession. The MarshalZones records all hold the one dictionary
\* dic, whose MarshalZoneId is overwritten on every round of the loop: in
\* the returned list each of them shows the last value written.
processSession(g, packet, time) ==
  LET g0 == mySessionId(g, packet, time)
      g1 == IsInitialized(g0)
      dic == [sessionTime |-> packet.header.sessionTime, sessionId |-> g1.sessionID,
              packetId |-> packet.header.packetId,
              MarshalZoneId |-> <<"MarshalZone", str(MarshalZoneSlots - 1)>>]
  IN
  IF ~g1.init THEN [game |-> g1, json |-> <<>>]
  ELSE [game |-> g1,
        json |-> Append([i \in 1..MarshalZoneSlots |->
                           Record("MarshalZones", dic, time,
                                  MarshalZoneFields(packet, i - 1))],
                        Record("SessionData", AggregateTags(g1, packet), time,
                               PacketFields(packet)))]

processEvent(g, packet, time) ==
  LET g1 == IsInitialized(g) IN
  IF ~g1.init THEN [game |-> g1, json |-> <<>>]
  ELSE [game |-> g1,
        json |-> <<Record("EventData", AggregateTags(g1, packet), time,
                          PacketFields(packet))>>]

\* The roster built by both branches of processParticipant.
Roster(packet) ==
  [i \in 1..packet.numActiveCars |-> decode(packet.participants[i])]

\* processParticipant that recomputes the gate from the roster it has just
\* installed.
processParticipant_Regate(g, packet, time) ==
  LET g1 == IsInitialized(g)
      numActiveCars == packet.numActiveCars
      drivers == Roster(packet)
      g2 == [g1 EXCEPT !.drivers = drivers,
                       !.init = Len(drivers) > 0 /\ g1.sessionID # None]
  IN
  IF ~g1.init THEN [game |-> g2, json |-> <<>>]
  ELSE [game |-> g2,
        json |-> [i \in 1..numActiveCars |->
                    Record("ParticipantData",
                           DriverTags(g1, packet, drivers[numActiveCars]), time,
                           CarFields(packet, "participants", i - 1))]]

\* processParticipant that appends to the roster instead of rebuilding it.
processParticipant_Extend(g, packet, time) ==
  LET g1 == IsInitialized(g)
      numActiveCars == packet.numActiveCars
      drivers == Roster(packet)
      g2 == [g1 EXCEPT !.drivers = g1.drivers \o drivers]
  IN
  IF ~g1.init THEN [game |-> g2, json |-> <<>>]
  ELSE [game |-> g2,
        json |-> [i \in 1..numActiveCars |->
                    Record("ParticipantData",
                           DriverTags(g1, packet, drivers[numActiveCars]), time,
                           CarFields(packet, "participants", i - 1))]]

\* Game.processParticipant. When Ready, the ParticipantData records all hold
\* the one dictionary dic, whose driver entry is overwritten on every round
\* of the loop: in the returned list each shows the last driver written.
processParticipant(g, packet, time) ==
  LET g1 == IsInitialized(g)
      numActiveCars == packet.numActiveCars
      drivers == Roster(packet)
      g2 == [g1 EXCEPT !.drivers = drivers]
  IN
  IF ~g1.init THEN [game |-> g2, json |-> <<>>]
  ELSE [game |-> g2,
        json |-> [i \in 1..numActiveCars |->
                    Record("ParticipantData",
                           DriverTags(g1, packet, drivers[numActiveCars]), time,
                           CarFields(packet, "participants", i - 1))]]

\* The tracker method process_incoming_packets calls for a packet type.
Process(g, packet, time) ==
  LET id == packet.header.packetId IN
  CASE id = MOTION -> processMotion(g, packet, time)
    [] id = SESSION -> processSession(g, packet, time)
    [] id = LAP_DATA -> processLap(g, packet, time)
    [] id = EVENT -> processEvent(g, packet, time)
    [] id = PARTICIPANTS -> processParticipant(g, packet, time)
    [] id = CAR_SETUPS -> processCarSetup(g, packet, time)
    [] id = CAR_STATUS -> processCarStatus(g, packet, time)
    [] id = CAR_TELEMETRY -> processCarTelemetry(g, packet, time)

\* ------------------------------------------------- PacketRecorder (main.py)
\* A raw datagram: its length in bytes and what the bytes decode to.
Datagram(size, packet) == [size |-> size, packet |-> packet]

\* ctypes.sizeof(PacketHeader) of the telemetry library.
sizeofPacketHeader == 23
\* ctypes.sizeof of the packet type of a packet id (F1 2019 wire format).
sizeof(id) ==
  CASE id = MOTION -> 1343 [] id = SESSION -> 149 [] id = LAP_DATA -> 843
    [] id = EVENT -> 32 [] id = PARTICIPANTS -> 1104 [] id = CAR_SETUPS -> 843
    [] id = CAR_TELEMETRY -> 1347 [] id = CAR_STATUS -> 1143
\* HeaderFieldsToPacketType.get(...) is not None.
HeaderFieldsToPacketType(header) ==
  header.packetFormat = 2019 /\ header.packetVersion = 1
    /\ header.packetId \in PacketIDs

\* The validation without its last test, the one of the exact length.
Dropped_NoSizeTest(datagram) ==
  \/ datagram.size < sizeofPacketHeader
  \/ ~HeaderFieldsToPacketType(datagram.packet.header)

\* The three "continue" branches of process_incoming_packets.
Dropped(datagram) ==
  \/ datagram.size < sizeofPacketHeader
  \/ ~HeaderFieldsToPacketType(datagram.packet.header)
  \/ datagram.size # sizeof(datagram.packet.header.packetId)

unpack_udp_packet(datagram) == datagram.packet

\* The key of jsonMessages the if/elif chain assigns the result to.
JsonKey(id) == IF id = CAR_SETUPS THEN CAR_STATUS ELSE id

\* jsonMessages[key] = value on a dict, which keeps its keys in the order of
\* their first insertion.
DictSet(d, key, value) ==
  IF \E i \in 1..Len(d) : d[i].key = key
  THEN [i \in 1..Len(d) |->
          IF d[i].key = key THEN [key |-> key, value |-> value] ELSE d[i]]
  ELSE Append(d, [key |-> key, value |-> value])

\* The for loop of process_incoming_packets over the drained set: the game
\* and jsonMessages after it, and the tracker calls made (packet id,
\* header.sessionTime and returned list of each, in order).
RECURSIVE Dispatch(_, _, _, _)
Dispatch(g, jsonMessages, calls, timestamped_packets) ==
  IF timestamped_packets = <<>>
  THEN [game |-> g, jsonMessages |-> jsonMessages, calls |-> calls]
  ELSE LET timestamp == Head(timestamped_packets).timestamp
           packet == Head(timestamped_packets).packet
           rest == Tail(timestamped_packets)
       IN
       IF Dropped(packet) THEN Dispatch(g, jsonMessages, calls, rest)
       ELSE LET unpacket == unpack_udp_packet(packet)
                id == unpacket.header.packetId
                r == Process(g, unpacket, timestamp)
            IN Dispatch(r.game, DictSet(jsonMessages, JsonKey(id), r.json),
                        Append(calls, [packetId |-> id,
                                       sessionTime |-> unpacket.header.sessionTime,
                                       json |-> r.json]), rest)

\* process_incoming_packets up to the write loop.
process_incoming_packets(g, timestamped_packets) ==
  Dispatch(g, <<>>, <<>>, timestamped_packets)

\* The datagrams the game can send with header.sessionTime = st, and the
\* malformed ones: too short for a header, an unknown packet format, a
\* length other than that of the packet type.
ValidDatagram(packet) == Datagram(sizeof(packet.header.packetId), packet)
FlushPackets(st) ==
  {Packet(id, 1, st, 0, 0, 0, DefaultNames) :
     id \in {MOTION, CAR_SETUPS, CAR_STATUS}}
  \cup {Packet(SESSION, 1, st, 0, 0, 0, DefaultNames)}
  \cup {Packet(PARTICIPANTS, 1, st, 0, 0, k, DefaultNames) : k \in {0, MaxCars}}
BadDatagrams(st) ==
  LET motion == Packet(MOTION, 1, st, 0, 0, 0, DefaultNames) IN
  {Datagram(sizeofPacketHeader - 1, motion),
   Datagram(sizeof(MOTION), [motion EXCEPT !.header.packetFormat = 2018]),
   Datagram(sizeof(MOTION) + 1, motion)}
DatagramsAt(st) == {ValidDatagram(packet) : packet \in FlushPackets(st)}
                     \cup BadDatagrams(st)

\* ------------------------------------------------------------------ state
VARIABLES
  now,            \* the wall clock (datetime.utcnow), seconds
  game,           \* the Game object of the PacketRecorder
  ret,            \* the list returned by the last process* call
  call,           \* the last process* call: <<>> or <<[packet, time]>>
  seenParticipants, seenSession,  \* a packet of that type has been processed
  sessions,       \* the SessionIdentity of every session so far, oldest first
  queue,          \* PacketRecorderThread._packets, the Handoff Queue
  rec_pc,         \* where PacketRecorderThread.run stands
  calls,          \* the tracker calls of the last process_incoming_packets
  game_before,    \* the Game object as the last flush cycle found it: <<>> or
                  \* <<game>>
  writes,         \* the lists given to write_points by the last
                  \* process_incoming_packets, in order
  sent,           \* the number of datagrams the game has sent
  udp_socket,     \* the datagrams in the receive buffer of the UDP socket
  rx_pc,          \* where PacketReceiverThread.run stands
  rx_events,      \* the keys of the select() result not yet handled
  rx_quitflag,    \* quitflag of PacketReceiverThread.run
  timestamped_packet,  \* the TimestampedPacket being recorded: <<>> or <<tp>>
  packets_lock,   \* the holder of _packets_lock: "free", "receiver", "recorder"
  packets,        \* the local list packets of PacketRecorderThread.run
  rec_quitflag,   \* quitflag of PacketRecorderThread.run
  inactivity_timer,    \* inactivity_timer of PacketRecorderThread.run
  jsonMessages,   \* the items of jsonMessages not yet written
  main_pc,        \* where main stands
  rx_quit, rec_quit,   \* a quit byte is in the socketpair of the thread
  pushed,         \* header.sessionTime of every datagram record_packet appended
  delivered,      \* the same of every datagram given to process_incoming_packets
  readError,      \* udp_socket.recv has raised
  writeError,     \* write_points has raised
  record_interval,     \* _record_interval of the PacketRecorderThread
  timeout,        \* timeout of PacketRecorderThread.run: <<>> or <<seconds>>
  age,            \* the argument of no_packets_received in this iteration of
                  \* PacketRecorderThread.run: <<>> or <<seconds>>
  drained_at      \* the time of the last drain that was not empty: <<>> or
                  \* <<seconds>>

trackerVars == <<ret, call, seenParticipants, seenSession, sessions>>
flushVars == <<queue, rec_pc, calls, writes, game_before>>
receiverVars == <<rx_pc, rx_events, rx_quitflag, timestamped_packet>>
recorderVars == <<packets, rec_quitflag, inactivity_timer, jsonMessages>>
mainVars == <<main_pc, rx_quit, rec_quit>>
historyVars == <<pushed, delivered, readError, writeError>>
observationVars == <<age, drained_at>>
timerVars == <<record_interval, timeout>>
threadVars == <<sent, udp_socket, receiverVars, packets_lock, recorderVars, mainVars,
                historyVars, observationVars, timerVars>>
vars == <<now, game, trackerVars, flushVars, threadVars>>

Instants(from) == {t \in {from, from + 30} : t <= 30 * MaxTicks}

\* ---------------------------------------------------------------- SpecGame
\* The tracker alone: any sequence of valid packets, each with the arrival
\* timestamp of its datagram (the wall clock does not run backwards).
\* The objects of main.py after construction, but for the wall clock and
\* the interval given on the command line.
InitObjects ==
  /\ timeout = None
  /\ game = GameInit
  /\ ret = <<>>
  /\ call = <<>>
  /\ seenParticipants = FALSE
  /\ seenSession = FALSE
  /\ sessions = <<>>
  /\ queue = <<>>
  /\ rec_pc = "select"
  /\ calls = <<>>
  /\ writes = <<>>
  /\ sent = 0
  /\ udp_socket = <<>>
  /\ rx_pc = "select"
  /\ rx_events = <<>>
  /\ rx_quitflag = FALSE
  /\ timestamped_packet = <<>>
  /\ packets_lock = "free"
  /\ packets = <<>>
  /\ rec_quitflag = FALSE
  /\ inactivity_timer = 0
  /\ age = None
  /\ drained_at = None
  /\ game_before = None
  /\ jsonMessages = <<>>
  /\ main_pc = "wait"
  /\ rx_quit = FALSE
  /\ rec_quit = FALSE
  /\ pushed = <<>>
  /\ delivered = <<>>
  /\ readError = FALSE
  /\ writeError = FALSE

\* The program started at time 0 with the default interval of 1 second.
InitGame ==
  /\ now = 0
  /\ record_interval = 1
  /\ InitObjects

\* One call of the tracker method for the packet's type.
Feed(packet, time) ==
  \E r \in {Process(game, packet, time)} :
  LET boundary == r.game.sessionIDBrut # game.sessionIDBrut IN
  /\ boundary => Len(sessions) < MaxSessions
  /\ now' = time
  /\ game' = r.game
  /\ ret' = r.json
  /\ call' = <<[packet |-> packet, time |-> time]>>
  /\ seenParticipants' = (seenParticipants \/ packet.header.packetId = PARTICIPANTS)
  /\ seenSession' = (seenSession \/ packet.header.packetId = SESSION)
  /\ sessions' = IF boundary THEN Append(sessions, r.game.sessionID[1]) ELSE sessions
  /\ UNCHANGED <<flushVars, threadVars>>

FeedPacket == \E time \in Instants(now) : \E packet \in PacketsAt(time) : Feed(packet, time)

NextGame == FeedPacket

SpecGame == InitGame /\ [][NextGame]_vars

\* --------------------------------------------------------------- SpecFlush
\* The recorder at the grain of flush cycles: datagrams arrive in the
\* Handoff Queue, and a flush drains the queue and runs
\* process_incoming_packets over the drained set.
MaxBatch == 3

InitFlush == InitGame

\* A datagram arrives and is queued with its arrival timestamp. Its
\* header.sessionTime tells the datagrams of one flush window apart. The
\* clock steps between the windows (a window is short against a step); what
\* the Sink was given in the window before is not looked at any more.
Arrive ==
  \E datagram \in DatagramsAt(Len(queue)) :
    /\ rec_pc = "select"
    /\ Len(queue) < MaxBatch
    /\ queue' = Append(queue, [timestamp |-> now, packet |-> datagram])
    /\ calls' = <<>>
    /\ writes' = <<>>
    /\ game_before' = None
    /\ UNCHANGED <<now, game, trackerVars, rec_pc, threadVars>>

\* The values of jsonMessages.items() in order.
Values(items) == [i \in 1..Len(items) |-> items[i].value]

\* A flush of a non-empty queue in which every write_points call returns.
FlushCycle ==
  /\ rec_pc = "select"
  /\ queue # <<>>
  /\ \E r \in {process_incoming_packets(game, queue)} :
       /\ game' = r.game
       /\ calls' = r.calls
       /\ writes' = Values(r.jsonMessages)
  /\ queue' = <<>>
  /\ game_before' = Some(game)
  /\ now' \in Instants(now)
  /\ UNCHANGED <<trackerVars, rec_pc, threadVars>>

\* A flush in which the n-th write_points call raises: the exception leaves
\* process_incoming_packets and PacketRecorderThread.run.
FlushCycleFails ==
  /\ rec_pc = "select"
  /\ queue # <<>>
  /\ \E r \in {process_incoming_packets(game, queue)} :
       \E n \in 1..Len(r.jsonMessages) :
         /\ game' = r.game
         /\ calls' = r.calls
         /\ writes' = SubSeq(Values(r.jsonMessages), 1, n - 1)
  /\ queue' = <<>>
  /\ game_before' = Some(game)
  /\ rec_pc' = "crashed"
  /\ UNCHANGED <<now, trackerVars, threadVars>>

NextFlush == Arrive \/ FlushCycle \/ FlushCycleFails

SpecFlush == InitFlush /\ [][NextFlush]_vars

\* -------------------------------------------------------------------- Spec
\* The three threads of main.py: main, the PacketReceiverThread (listener)
\* and the PacketRecorderThread (flush loop), and the game sending datagrams.
MaxDatagrams == 3

\* The datagrams the game sends here: the st-th has header.sessionTime = st.
ThreadDatagrams(st) ==
  {ValidDatagram(Packet(SESSION, 1, st, 0, 0, 0, DefaultNames)),
   ValidDatagram(Packet(PARTICIPANTS, 1, st, 0, 0, MaxCars, DefaultNames))}

Ids(timestamped_packets) ==
  [i \in 1..Len(timestamped_packets) |->
     timestamped_packets[i].packet.packet.header.sessionTime]

\* The game sends a datagram to the UDP port, which is open until the
\* listener leaves its loop; the one before has been read by then.
GameSends ==
  /\ sent < MaxDatagrams
  /\ udp_socket = <<>>
  /\ rx_pc \notin {"stopped", "crashed"}
  /\ \E datagram \in ThreadDatagrams(sent + 1) :
       udp_socket' = Append(udp_socket, datagram)
  /\ sent' = sent + 1
  /\ UNCHANGED <<now, game, trackerVars, flushVars, receiverVars, packets_lock,
                 recorderVars, mainVars, historyVars,
                 observationVars, timerVars>>

\* ---- PacketReceiverThread.run
\* selector.select() returns the ready keys, in any order.
RxSelect ==
  /\ rx_pc = "select"
  /\ udp_socket # <<>> \/ rx_quit
  /\ rx_events' \in
       {e \in {<<"udp">>, <<"quit">>, <<"udp", "quit">>, <<"quit", "udp">>} :
          /\ (\E i \in 1..Len(e) : e[i] = "udp") <=> udp_socket # <<>>
          /\ (\E i \in 1..Len(e) : e[i] = "quit") <=> rx_quit}
  /\ rx_pc' = "events"
  /\ UNCHANGED <<now, game, trackerVars, flushVars, sent, udp_socket, rx_quitflag,
                 timestamped_packet, packets_lock, recorderVars, mainVars, historyVars,
                 observationVars, timerVars>>

\* key == key_udp_socket: the datagram is read and timestamped.
RxRecv ==
  /\ rx_pc = "events" /\ rx_events # <<>> /\ Head(rx_events) = "udp"
  /\ timestamped_packet' = <<[timestamp |-> now, packet |-> Head(udp_socket)]>>
  /\ udp_socket' = Tail(udp_socket)
  /\ rx_pc' = "record"
  /\ UNCHANGED <<now, game, trackerVars, flushVars, sent, rx_events, rx_quitflag,
                 packets_lock, recorderVars, mainVars, historyVars,
                 observationVars, timerVars>>

\* udp_socket.recv raises: nothing in run catches the exception, the thread
\* ends.
RxRecvFails ==
  /\ rx_pc = "events" /\ rx_events # <<>> /\ Head(rx_events) = "udp"
  /\ readError' = TRUE
  /\ rx_pc' = "crashed"
  /\ UNCHANGED <<now, game, trackerVars, flushVars, sent, udp_socket, rx_events,
                 rx_quitflag, timestamped_packet, packets_lock, recorderVars,
                 mainVars, pushed, delivered, writeError,
                 observationVars, timerVars>>

\* key == key_socketpair
RxQuitKey ==
  /\ rx_pc = "events" /\ rx_events # <<>> /\ Head(rx_events) = "quit"
  /\ rx_quitflag' = TRUE
  /\ rx_events' = Tail(rx_events)
  /\ UNCHANGED <<now, game, trackerVars, flushVars, sent, udp_socket, rx_pc,
                 timestamped_packet, packets_lock, recorderVars, mainVars, historyVars,
                 observationVars, timerVars>>

\* A loop that does not test quitflag.
RxLoop_Forever ==
  /\ rx_pc = "events" /\ rx_events = <<>>
  /\ rx_pc' = "select"
  /\ UNCHANGED <<now, game, trackerVars, flushVars, sent, udp_socket, rx_events,
                 rx_quitflag, timestamped_packet, packets_lock, recorderVars,
                 mainVars, historyVars,
                 observationVars, timerVars>>

\* The keys are handled: while not quitflag.
RxLoop ==
  /\ rx_pc = "events" /\ rx_events = <<>>
  /\ rx_pc' = IF rx_quitflag THEN "stopped" ELSE "select"
  /\ UNCHANGED <<now, game, trackerVars, flushVars, sent, udp_socket, rx_events,
                 rx_quitflag, timestamped_packet, packets_lock, recorderVars,
                 mainVars, historyVars,
                 observationVars, timerVars>>

\* ---- PacketRecorderThread.record_packet, called by the receiver thread
RxAcquire ==
  /\ rx_pc = "record"
  /\ packets_lock = "free"
  /\ packets_lock' = "receiver"
  /\ rx_pc' = "append"
  /\ UNCHANGED <<now, game, trackerVars, flushVars, sent, udp_socket, rx_events,
                 rx_quitflag, timestamped_packet, recorderVars, mainVars, historyVars,
                 observationVars, timerVars>>

\* self._packets.append(timestamped_packet)
record_packet(q, tp) == Append(q, tp)

RxAppend ==
  /\ rx_pc = "append"
  /\ queue' = record_packet(queue, timestamped_packet[1])
  /\ pushed' = pushed \o Ids(timestamped_packet)
  /\ packets_lock' = "free"
  /\ timestamped_packet' = <<>>
  /\ rx_events' = Tail(rx_events)
  /\ rx_pc' = "events"
  /\ UNCHANGED <<now, game, trackerVars, rec_pc, calls, writes, sent, udp_socket,
                 rx_quitflag, recorderVars, mainVars, delivered, readError, writeError,
                 observationVars, game_before, timerVars>>

\* A run that leaves its loop as soon as select() shows the quit byte,
\* without the swap and the processing that follow in the same iteration.
RecSelect_LeaveAtOnce ==
  /\ rec_pc = "select"
  /\ now' \in Instants(now)
  /\ rec_quitflag' = rec_quit
  /\ writes' = <<>>
  /\ age' = None
  /\ rec_pc' = IF rec_quit THEN "close" ELSE "lock"
  /\ UNCHANGED <<game, trackerVars, queue, calls, sent, udp_socket,
                 receiverVars, packets_lock, packets, inactivity_timer, jsonMessages,
                 mainVars, historyVars, drained_at, game_before, timerVars>>

\* ---- PacketRecorderThread.run
\* selector.select(timeout) returns at the timeout or with the quit byte.
\* The wall clock advances while the thread waits; writes holds the
\* write_points calls of the iteration that begins.
RecSelect ==
  /\ rec_pc = "select"
  /\ now' \in Instants(now)
  /\ rec_quitflag' = rec_quit
  /\ writes' = <<>>
  /\ age' = None
  /\ rec_pc' = "lock"
  /\ UNCHANGED <<game, trackerVars, queue, calls, sent, udp_socket,
                 receiverVars, packets_lock, packets, inactivity_timer, jsonMessages,
                 mainVars, historyVars, drained_at, game_before, timerVars>>

RecAcquire ==
  /\ rec_pc = "lock"
  /\ packets_lock = "free"
  /\ packets_lock' = "recorder"
  /\ rec_pc' = "swap"
  /\ UNCHANGED <<now, game, trackerVars, queue, calls, writes, sent, udp_socket,
                 receiverVars, recorderVars, mainVars, historyVars,
                 observationVars, game_before, timerVars>>

\* A swap whose "with" block goes on to the end of the iteration: the lock
\* is still held after the swap.
RecSwap_HoldLock ==
  /\ rec_pc = "swap"
  /\ packets' = queue
  /\ queue' = packets
  /\ rec_pc' = "check"
  /\ UNCHANGED <<now, game, trackerVars, calls, writes, sent, udp_socket,
                 receiverVars, packets_lock, rec_quitflag, inactivity_timer,
                 jsonMessages, mainVars, historyVars, observationVars, game_before, timerVars>>

\* (packets, self._packets) = (self._packets, packets)
RecSwap ==
  /\ rec_pc = "swap"
  /\ packets' = queue
  /\ queue' = packets
  /\ packets_lock' = "free"
  /\ rec_pc' = "check"
  /\ UNCHANGED <<now, game, trackerVars, calls, writes, sent, udp_socket,
                 receiverVars, rec_quitflag, inactivity_timer, jsonMessages,
                 mainVars, historyVars,
                 observationVars, game_before, timerVars>>

\* len(packets) != 0
RecHasPackets ==
  /\ rec_pc = "check"
  /\ Len(packets) # 0
  /\ inactivity_timer' = packets[Len(packets)].timestamp
  /\ drained_at' = Some(now)
  /\ rec_pc' = "process"
  /\ UNCHANGED <<now, game, trackerVars, queue, calls, writes, sent, udp_socket,
                 receiverVars, packets_lock, packets, rec_quitflag, jsonMessages,
                 mainVars, historyVars, age, game_before, timerVars>>

\* else: t_now = utcnow(); age = t_now - inactivity_timer;
\* no_packets_received(age); inactivity_timer = t_now; while not quitflag
RecNoPackets ==
  /\ rec_pc = "check"
  /\ Len(packets) = 0
  /\ age' = Some(now - inactivity_timer)
  /\ inactivity_timer' = now
  /\ rec_pc' = IF rec_quitflag THEN "close" ELSE "select"
  /\ UNCHANGED <<now, game, trackerVars, queue, calls, writes, sent, udp_socket,
                 receiverVars, packets_lock, packets, rec_quitflag, jsonMessages,
                 mainVars, historyVars, drained_at, game_before, timerVars>>

\* recorder.process_incoming_packets(packets), up to the write loop
RecDispatch ==
  /\ rec_pc = "process"
  /\ \E r \in {process_incoming_packets(game, packets)} :
       /\ game' = r.game
       /\ jsonMessages' = r.jsonMessages
  /\ delivered' = delivered \o Ids(packets)
  /\ rec_pc' = "write"
  /\ UNCHANGED <<now, trackerVars, queue, calls, writes, sent, udp_socket, receiverVars,
                 packets_lock, packets, rec_quitflag, inactivity_timer, mainVars,
                 pushed, readError, writeError,
                 observationVars, game_before, timerVars>>

\* self.client.write_points(v) returns
RecWrite ==
  /\ rec_pc = "write"
  /\ jsonMessages # <<>>
  /\ writes' = Append(writes, Head(jsonMessages).value)
  /\ jsonMessages' = Tail(jsonMessages)
  /\ UNCHANGED <<now, game, trackerVars, queue, rec_pc, calls, sent, udp_socket,
                 receiverVars, packets_lock, packets, rec_quitflag, inactivity_timer,
                 mainVars, historyVars,
                 observationVars, game_before, timerVars>>

\* self.client.write_points(v) raises: nothing in process_incoming_packets
\* or in run catches the exception, the thread ends.
RecWriteFails ==
  /\ rec_pc = "write"
  /\ jsonMessages # <<>>
  /\ writeError' = TRUE
  /\ rec_pc' = "crashed"
  /\ UNCHANGED <<now, game, trackerVars, queue, calls, writes, sent, udp_socket,
                 receiverVars, packets_lock, recorderVars, mainVars, pushed,
                 delivered, readError,
                 observationVars, game_before, timerVars>>

\* run that leaves the processed packets in its list.
clear_Keep(list) == list

\* packets.clear()
clear(list) == <<>>

\* process_incoming_packets returns; packets.clear(); while not quitflag
RecClear ==
  /\ rec_pc = "write"
  /\ jsonMessages = <<>>
  /\ packets' = clear(packets)
  /\ rec_pc' = IF rec_quitflag THEN "close" ELSE "select"
  /\ UNCHANGED <<now, game, trackerVars, queue, calls, writes, sent, udp_socket,
                 receiverVars, packets_lock, rec_quitflag, inactivity_timer,
                 jsonMessages, mainVars, historyVars,
                 observationVars, game_before, timerVars>>

\* recorder.close(); selector.close()
RecClose ==
  /\ rec_pc = "close"
  /\ rec_pc' = "stopped"
  /\ UNCHANGED <<now, game, trackerVars, queue, calls, writes, sent, udp_socket,
                 receiverVars, packets_lock, recorderVars, mainVars, historyVars,
                 observationVars, game_before, timerVars>>

\* ---- main
\* quit_barrier.wait() returns; receiver_thread.request_quit()
MainStopReceiver ==
  /\ main_pc = "wait"
  /\ rx_quit' = TRUE
  /\ main_pc' = "join_receiver"
  /\ UNCHANGED <<now, game, trackerVars, flushVars, sent, udp_socket, receiverVars,
                 packets_lock, recorderVars, rec_quit, historyVars,
                 observationVars, timerVars>>

\* receiver_thread.join(); receiver_thread.close()
MainJoinReceiver ==
  /\ main_pc = "join_receiver"
  /\ rx_pc \in {"stopped", "crashed"}
  /\ main_pc' = "stop_recorder"
  /\ UNCHANGED <<now, game, trackerVars, flushVars, sent, udp_socket, receiverVars,
                 packets_lock, recorderVars, rx_quit, rec_quit, historyVars,
                 observationVars, timerVars>>

\* recorder_thread.request_quit()
MainStopRecorder ==
  /\ main_pc = "stop_recorder"
  /\ rec_quit' = TRUE
  /\ main_pc' = "join_recorder"
  /\ UNCHANGED <<now, game, trackerVars, flushVars, sent, udp_socket, receiverVars,
                 packets_lock, recorderVars, rx_quit, historyVars,
                 observationVars, timerVars>>

\* recorder_thread.join(); recorder_thread.close()
MainJoinRecorder ==
  /\ main_pc = "join_recorder"
  /\ rec_pc \in {"stopped", "crashed"}
  /\ main_pc' = "done"
  /\ UNCHANGED <<now, game, trackerVars, flushVars, sent, udp_socket, receiverVars,
                 packets_lock, recorderVars, rx_quit, rec_quit, historyVars,
                 observationVars, timerVars>>

Init == InitGame

Next ==
  \/ GameSends
  \/ RxSelect \/ RxRecv \/ RxRecvFails \/ RxQuitKey \/ RxLoop \/ RxAcquire \/ RxAppend
  \/ RecSelect \/ RecAcquire \/ RecSwap \/ RecHasPackets \/ RecNoPackets
  \/ RecDispatch \/ RecWrite \/ RecWriteFails \/ RecClear \/ RecClose
  \/ MainStopReceiver \/ MainJoinReceiver \/ MainStopRecorder \/ MainJoinRecorder

Spec == Init /\ [][Next]_vars

\* The steps of each worker thread.
Receiver ==
  RxSelect \/ RxRecv \/ RxRecvFails \/ RxQuitKey \/ RxLoop \/ RxAcquire \/ RxAppend
Recorder ==
  \/ RecSelect \/ RecAcquire \/ RecSwap \/ RecHasPackets \/ RecNoPackets
  \/ RecDispatch \/ RecWrite \/ RecWriteFails \/ RecClear \/ RecClose

\* The threads under a scheduler that lets each worker run: a worker that can
\* take a step takes one (select returns at its timeout or on a ready key,
\* recv and write_points return or raise), and the receiver gets the lock,
\* which the recorder frees after each swap and leaves free while it waits in
\* select.
SpecLive ==
  /\ Init /\ [][Next]_vars
  /\ WF_vars(Receiver) /\ SF_vars(RxAcquire)
  /\ WF_vars(Recorder)

\* ------------------------------------------------------------- SpecTimeout
\* The wait of PacketRecorderThread.run over whole seconds: the thread
\* computes its timeout from the wall clock and the interval, and select
\* returns when the timeout has passed.
MaxNow == 20
MaxInterval == 6

\* timeout without the lengthening of a short wait.
Timeout_NoExtra(t, interval) == (-t) % interval

\* timeout = (-time.time()) % self._record_interval, and one more interval
\* if timeout < 0.5 * self._record_interval.
Timeout(t, interval) ==
  LET short == (-t) % interval
  IN  IF 2 * short < interval THEN short + interval ELSE short

InitTimeout ==
  /\ now \in 0..MaxNow
  /\ record_interval \in 1..MaxInterval
  /\ InitObjects

ComputeTimeout ==
  /\ timeout = None
  /\ timeout' = Some(Timeout(now, record_interval))
  /\ UNCHANGED <<now, game, trackerVars, flushVars, sent, udp_socket, receiverVars,
                 packets_lock, recorderVars, mainVars, historyVars, observationVars,
                 record_interval>>

\* selector.select(timeout) returns at the timeout.
SelectTimesOut ==
  /\ timeout # None
  /\ now + timeout[1] <= MaxNow + 2 * MaxInterval
  /\ now' = now + timeout[1]
  /\ timeout' = None
  /\ UNCHANGED <<game, trackerVars, flushVars, sent, udp_socket, receiverVars,
                 packets_lock, recorderVars, mainVars, historyVars, observationVars,
                 record_interval>>

NextTimeout == ComputeTimeout \/ SelectTimesOut

SpecTimeout == InitTimeout /\ [][NextTimeout]_vars

\* ------------------------------------------------------------------ claims
\* The packet and the timestamp of the last tracker call.
LastPacket == call[1].packet
LastTime == call[1].time
LastIs(id) == call # <<>> /\ LastPacket.header.packetId = id

\* C1: as long as a PARTICIPANTS packet and a SESSION packet have not both
\* been processed at least once, every process* call returns an empty list.
C1_NoRecordsBeforeBoth ==
  ~(seenParticipants /\ seenSession) => ret = <<>>

\* C1 witness: a MOTION packet was processed with a roster known and no
\* SESSION packet seen yet.
C1_Witness ==
  /\ LastIs(MOTION)
  /\ seenParticipants /\ ~seenSession
  /\ Len(game.drivers) > 0
  /\ ret = <<>>

\* The datagrams drained from the queue and not yet given to
\* process_incoming_packets.
Drained == IF rec_pc \in {"check", "process"} THEN Ids(packets) ELSE <<>>

\* C2: under every interleaving of record_packet and the swap, the datagrams
\* given to process_incoming_packets so far, those drained for the cycle
\* under way and those still queued are, in this order, the datagrams
\* pushed, in arrival order: none is lost, none is delivered twice.
C2_ExactlyOnceInOrder ==
  pushed = delivered \o Drained \o Ids(queue)

\* C2 witness: a cycle is about to process a drained set while an earlier
\* cycle has delivered datagrams and the listener has queued a later one.
C2_Witness ==
  /\ rec_pc = "process"
  /\ delivered # <<>>
  /\ packets # <<>>
  /\ queue # <<>>

\* The records the tracker returned in the last flush cycle for the packets
\* of one type, in the order of the calls.
RECURSIVE RecordsOf(_, _)
RecordsOf(cs, id) ==
  IF cs = <<>> THEN <<>>
  ELSE (IF Head(cs).packetId = id THEN Head(cs).json ELSE <<>>)
         \o RecordsOf(Tail(cs), id)

Range(f) == {f[i] : i \in DOMAIN f}

\* C3: after a flush cycle whose writes all returned, the records returned
\* for every decoded packet of a type are in one batch given to the Sink:
\* those of all packets of the type, not only of the last one.
C3_BatchHoldsAllRecords ==
  rec_pc # "crashed" =>
    \A id \in PacketIDs :
      RecordsOf(calls, id) # <<>> =>
        \E i \in 1..Len(writes) : Range(RecordsOf(calls, id)) \subseteq Range(writes[i])

\* C4: after a flush cycle whose writes all returned, the Sink has had one
\* write call for each packet type with a non-empty batch and none for a
\* type with an empty batch: no write call with an empty list.
C4_OneWritePerNonEmptyBatch ==
  rec_pc # "crashed" =>
    /\ \A i \in 1..Len(writes) : writes[i] # <<>>
    /\ Len(writes) = Cardinality({id \in PacketIDs : RecordsOf(calls, id) # <<>>})

\* A datagram fails validation: it is shorter than the header, its (format,
\* version, id) is unknown, or its length is not that of its packet type.
FailsValidation(datagram) ==
  \/ datagram.size < 23
  \/ datagram.packet.header.packetFormat # 2019
  \/ datagram.packet.header.packetVersion # 1
  \/ datagram.packet.header.packetId \notin 0..7
  \/ datagram.size # sizeof(datagram.packet.header.packetId)

\* The tracker calls for the given datagrams, one after the other: the
\* tracker after them and what each call returned.
RECURSIVE TrackerCalls(_, _, _)
TrackerCalls(g, tps, returned) ==
  IF tps = <<>> THEN [game |-> g, returned |-> returned]
  ELSE LET r == Process(g, Head(tps).packet.packet, Head(tps).timestamp)
       IN  TrackerCalls(r.game, Tail(tps), Append(returned, r.json))

\* What C11 says of one flush cycle, whose drained set is the queue.
C11_Step ==
  (queue # <<>> /\ queue' = <<>>) =>
    LET valid == SelectSeq(queue, LAMBDA tp : ~FailsValidation(tp.packet))
        expected == TrackerCalls(game, valid, <<>>)
    IN  /\ Len(calls') = Len(valid)
        /\ \A i \in 1..Len(valid) :
             /\ calls'[i].packetId = valid[i].packet.packet.header.packetId
             /\ calls'[i].sessionTime = valid[i].packet.packet.header.sessionTime
             /\ calls'[i].json = expected.returned[i]
        /\ game' = expected.game

\* C11: a datagram that fails validation is not passed to the tracker,
\* contributes no records and leaves the tracker as it was, and every valid
\* datagram of the drained set, also a later one, is decoded and dispatched.
C11_InvalidDatagramsSkipped == [][C11_Step]_vars

\* C11 witness: a flush cycle has dropped the first datagram of its drained
\* set and dispatched the second, which returned records.
C11_Witness ==
  /\ Len(calls) = 1
  /\ calls[1].sessionTime = 1
  /\ calls[1].json # <<>>
  /\ writes # <<>>

\* C12: a flush tick that drains an empty queue makes no Sink call and reports
\* one inactivity observation, whose age is the time since the previous drain
\* that was not empty, also when several empty drains follow one another.
C12_AgeSincePreviousDrain ==
  (age # None /\ drained_at # None) =>
    /\ writes = <<>>
    /\ age = Some(now - drained_at[1])

\* The records given to the Sink in the last flush cycle, in the order of
\* their submission: the lists of the write calls one after the other.
RECURSIVE Submitted(_)
Submitted(lists) ==
  IF lists = <<>> THEN <<>> ELSE Head(lists) \o Submitted(Tail(lists))

\* C13: within one flush cycle the records reach the Sink in the arrival
\* order of their source packets (header.sessionTime is the position of the
\* packet in the drained set), also when packets of several types alternate.
C13_RecordsInArrivalOrder ==
  LET submitted == Submitted(writes) IN
  \A i, j \in 1..Len(submitted) :
    i < j => submitted[i].tags.sessionTime <= submitted[j].tags.sessionTime

\* C14: at shutdown the flush loop sees its quit byte only after main has
\* joined the receiver, and it leaves its loop only after the swap and the
\* processing of that same iteration: when it has left, the queue is empty and
\* every datagram the receiver pushed has been given to
\* process_incoming_packets.
C14_FinalIterationDrainsAll ==
  /\ rec_quitflag => rx_pc \in {"stopped", "crashed"}
  /\ rec_pc \in {"close", "stopped"} =>
       /\ rec_quitflag
       /\ queue = <<>>
       /\ packets = <<>>
       /\ delivered = pushed

\* C14 witness: the flush loop has ended, and its last iteration, the one
\* that saw the quit byte, drained datagrams and wrote their records.
C14_Witness ==
  /\ rec_pc = "stopped"
  /\ drained_at = Some(now)
  /\ writes # <<>>
  /\ delivered = pushed
  /\ Len(pushed) >= 2

\* A worker thread has ended: run has returned, or an exception has ended it.
Terminated(pc) == pc \in {"stopped", "crashed"}

\* C15: once main has sent the quit byte to a worker, the worker ends (every
\* write_points call coming back): the receiver does not wait in select again
\* once it has seen the byte, the recorder ends after the iteration that saw
\* it, and main goes past join and close of a worker only when it has ended.
\* A quit byte sent stays sent and a thread ended stays ended, so "sent leads
\* to ended" is "again and again: not sent, or ended".
C15_WorkersTerminate ==
  /\ []<>(rx_quit => Terminated(rx_pc))
  /\ []<>(rec_quit => Terminated(rec_pc))
  /\ [](rx_quitflag => rx_pc # "select")
  /\ [](rec_quitflag => rec_pc # "select")
  /\ [](main_pc \in {"stop_recorder", "join_recorder", "done"} => Terminated(rx_pc))
  /\ [](main_pc = "done" => Terminated(rec_pc))

\* C15 witness: main has joined and closed both workers, each of which left
\* its loop on its quit byte, the receiver after pushing datagrams.
C15_Witness ==
  /\ main_pc = "done"
  /\ rx_pc = "stopped" /\ rx_quitflag
  /\ rec_pc = "stopped" /\ rec_quitflag
  /\ pushed # <<>>

\* C16: the lock is held only for one append by the receiver or one swap by
\* the recorder; while the recorder is inside process_incoming_packets, also
\* in a write_points call that does not return, it does not hold the lock, so
\* a receiver that waits for the lock finds it free and can push.
C16_LockOnlyForAppendOrSwap ==
  /\ packets_lock = "recorder" <=> rec_pc = "swap"
  /\ packets_lock = "receiver" <=> rx_pc = "append"
  /\ rec_pc \in {"process", "write"} =>
       /\ packets_lock # "recorder"
       /\ rx_pc = "record" => packets_lock = "free"

\* C16 witness: the receiver holds the lock for its append while the recorder
\* is in process_incoming_packets with a write_points call still to come.
C16_Witness ==
  /\ rec_pc = "write"
  /\ jsonMessages # <<>>
  /\ rx_pc = "append"
  /\ packets_lock = "receiver"

\* The packet ids of the tracker calls of the last flush cycle.
CallIds == [i \in 1..Len(calls) |-> calls[i].packetId]

\* The records of a MOTION call for a roster of k drivers: k per-driver
\* records and one aggregate record after them.
MotionRecords(json, k) ==
  /\ Len(json) = k + 1
  /\ \A i \in 1..k : json[i].measurement = "MotionData"
  /\ json[k + 1].measurement = "MyMotionData"

\* The drained set of the last flush cycle was PARTICIPANTS with k > 0
\* drivers, SESSION and MOTION, in the order of the ids given, and the
\* tracker was fresh.
FreshCycleOf(ids) ==
  /\ game_before = Some(GameInit)
  /\ CallIds = ids
  /\ \A i \in 1..3 : calls[i].sessionTime = i - 1
  /\ Len(game.drivers) > 0

\* C17: a fresh tracker fed PARTICIPANTS (k > 0 drivers, 2 in the claim),
\* SESSION and MOTION in one flush cycle returns no record for PARTICIPANTS,
\* one record per marshal zone entry and one aggregate for SESSION, and k
\* per-driver records and one aggregate for MOTION; fed SESSION, PARTICIPANTS
\* and MOTION it is Ready when MOTION comes and returns the same for MOTION.
C17_ReadyWithinOneCycle ==
  /\ FreshCycleOf(<<PARTICIPANTS, SESSION, MOTION>>) =>
       /\ calls[1].json = <<>>
       /\ Len(calls[2].json) = MarshalZoneSlots + 1
       /\ \A i \in 1..MarshalZoneSlots : calls[2].json[i].measurement = "MarshalZones"
       /\ calls[2].json[MarshalZoneSlots + 1].measurement = "SessionData"
       /\ MotionRecords(calls[3].json, Len(game.drivers))
  /\ FreshCycleOf(<<SESSION, PARTICIPANTS, MOTION>>) =>
       /\ game.init
       /\ MotionRecords(calls[3].json, Len(game.drivers))

\* C17 witness: the flush cycle of a fresh tracker had PARTICIPANTS with 2
\* drivers, SESSION and MOTION, and MOTION returned 3 records.
C17_Witness ==
  /\ FreshCycleOf(<<PARTICIPANTS, SESSION, MOTION>>)
  /\ Len(game.drivers) = 2
  /\ Len(calls[3].json) = 3

\* The per-driver packet types, each with its measurement and its per-car
\* array.
PerDriverIds == {MOTION, CAR_SETUPS, CAR_TELEMETRY, CAR_STATUS, LAP_DATA}
MeasurementOf(id) ==
  CASE id = MOTION -> "MotionData"
    [] id = CAR_SETUPS -> "CarSetupData"
    [] id = CAR_TELEMETRY -> "CarTelemetryData"
    [] id = CAR_STATUS -> "CarStatusData"
    [] id = LAP_DATA -> "LapData"
ArrayOf(id) ==
  CASE id = MOTION -> "carMotionData"
    [] id = CAR_SETUPS -> "carSetups"
    [] id = CAR_TELEMETRY -> "carTelemetryData"
    [] id = CAR_STATUS -> "carStatusData"
    [] id = LAP_DATA -> "lapData"

\* What C18 says of one tracker call, whose packet is call'[1].packet.
C18_Step ==
  LET packet == call'[1].packet
      id == packet.header.packetId
      k == Len(game.drivers)
  IN
  /\ id = PARTICIPANTS =>
       /\ Len(game'.drivers) = packet.numActiveCars
       /\ \A i \in 1..packet.numActiveCars :
            game'.drivers[i] = decode(packet.participants[i])
  /\ id # PARTICIPANTS => game'.drivers = game.drivers
  /\ (id \in PerDriverIds /\ game'.init) =>
       /\ Len(ret') = IF id = MOTION THEN k + 1 ELSE k
       /\ \A i \in 1..k :
            /\ ret'[i].measurement = MeasurementOf(id)
            /\ ret'[i].tags.driver = game.drivers[i]
            /\ ret'[i].fields.array = ArrayOf(id)
            /\ ret'[i].fields.slot = i - 1
            /\ ret'[i].fields.sessionTime = packet.header.sessionTime
       /\ id = MOTION =>
            /\ ret'[k + 1].measurement = "MyMotionData"
            /\ "driver" \notin DOMAIN ret'[k + 1].tags

\* C18: once Ready, a per-driver packet returns one record per roster entry
\* in slot order, the i-th tagged with the roster name of slot i and holding
\* the fields of car slot i of the packet, and MOTION one aggregate record
\* after them; the roster is the names of the last PARTICIPANTS packet, no
\* other packet changes it.
C18_OneRecordPerRosterEntry == [][C18_Step]_vars

\* C18 witness: a MOTION packet was processed while Ready over a roster of
\* two different names and returned three records.
C18_Witness ==
  /\ LastIs(MOTION)
  /\ game.init
  /\ Len(game.drivers) = 2
  /\ game.drivers[1] # game.drivers[2]
  /\ Len(ret) = 3

\* C19: once Ready, a SESSION packet returns one MarshalZones record per
\* marshal zone entry, and in the returned list the i-th of them has the label
\* of its own entry, "MarshalZone" + i: different records, different labels.
C19_MarshalZoneLabels ==
  (LastIs(SESSION) /\ ret # <<>>) =>
    /\ Len(ret) = MarshalZoneSlots + 1
    /\ \A i \in 1..MarshalZoneSlots :
         /\ ret[i].measurement = "MarshalZones"
         /\ ret[i].fields = MarshalZoneFields(LastPacket, i - 1)
         /\ ret[i].tags.MarshalZoneId = <<"MarshalZone", str(i - 1)>>

\* C20: over whole seconds the timeout is at least half an interval and less
\* than one and a half, the wake-up falls on a multiple of the interval, and
\* the timeout is the time left to the next multiple, interval - (now mod
\* interval), plus one interval exactly when that is under half an interval.
C20_TimeoutAligned ==
  timeout # None =>
    LET left == record_interval - (now % record_interval) IN
    /\ record_interval <= 2 * timeout[1]
    /\ 2 * timeout[1] < 3 * record_interval
    /\ (now + timeout[1]) % record_interval = 0
    /\ timeout[1] = IF 2 * left < record_interval THEN left + record_interval ELSE left

\* C20 witness: less than half an interval was left and the timeout has been
\* lengthened by one interval.
C20_Witness ==
  /\ timeout # None
  /\ now % record_interval # 0
  /\ 2 * (record_interval - (now % record_interval)) < record_interval
  /\ timeout[1] > record_interval

\* The names of the four fields of a wheel array, by index in the array.
WheelSuffix == [w \in 0..3 |-> CASE w = 0 -> "_RL" [] w = 1 -> "_RR"
                                  [] w = 2 -> "_FL" [] w = 3 -> "_FR"]

\* The wheel arrays the claim names for a packet type, and the per-car array
\* of the type.
ExpandedArrays(id) ==
  IF id = CAR_TELEMETRY
  THEN {"brakesTemperature", "tyresSurfaceTemperature", "tyresInnerTemperature",
        "tyresPressure", "surfaceType"}
  ELSE {"tyresWear", "tyresDamage"}

\* C21: a CAR_TELEMETRY packet processed while Ready gives per-driver records
\* whose fields hold, for each of the five wheel arrays a, a_RL = a[0], a_RR =
\* a[1], a_FL = a[2] and a_FR = a[3] of the car slot and no field a;
\* CAR_STATUS the same for tyresWear and tyresDamage.
C21_WheelArraysExpanded ==
  ((LastIs(CAR_TELEMETRY) \/ LastIs(CAR_STATUS)) /\ game.init) =>
    LET id == LastPacket.header.packetId IN
    /\ Len(ret) = Len(game.drivers)
    /\ \A i \in 1..Len(ret) : \A a \in ExpandedArrays(id) :
         /\ a \notin DOMAIN ret[i].fields
         /\ \A w \in 0..3 :
              /\ (a \o WheelSuffix[w]) \in DOMAIN ret[i].fields
              /\ ret[i].fields[a \o WheelSuffix[w]] =
                   <<LastPacket.header.sessionTime, i - 1, a, w>>

\* C21 witness: a CAR_TELEMETRY packet was processed while Ready and the
\* record of the second driver holds tyresPressure_FR, the value of index 3
\* of the array of car slot 1.
C21_Witness ==
  /\ LastIs(CAR_TELEMETRY)
  /\ game.init
  /\ Len(ret) = 2
  /\ "tyresPressure_FR" \in DOMAIN ret[2].fields
  /\ ret[2].fields["tyresPressure_FR"] = <<LastPacket.header.sessionTime, 1, "tyresPressure", 3>>

\* A write call of the last flush cycle that gave the Sink records of the
\* measurement, and of no other.
WrittenAlone(measurement) ==
  {i \in 1..Len(writes) :
     /\ writes[i] # <<>>
     /\ \A n \in 1..Len(writes[i]) : writes[i][n].measurement = measurement}

\* C22: records of different packet types do not share a batch and do not
\* displace each other: after a flush cycle (its writes all returned) in
\* which a CAR_SETUPS and a CAR_STATUS packet both returned records, the Sink
\* has had the CarSetupData records and the CarStatusData records, each in
\* a write call of its own.
C22_SetupsAndStatusBothWritten ==
  rec_pc # "crashed" =>
    /\ \A i \in 1..Len(writes) : \A n, m \in 1..Len(writes[i]) :
         writes[i][n].tags.packetId = writes[i][m].tags.packetId
    /\ (RecordsOf(calls, CAR_SETUPS) # <<>> /\ RecordsOf(calls, CAR_STATUS) # <<>>) =>
         /\ WrittenAlone("CarSetupData") # {}
         /\ WrittenAlone("CarStatusData") # {}

\* C23: in every tracker state with the readiness gate true the roster is
\* not empty and an identity is set, so a per-driver packet processed while
\* Ready returns at least one per-driver record, also after a PARTICIPANTS
\* packet with numActiveCars = 0 that came when the tracker was Ready.
C23_ReadyHasRoster ==
  game.init =>
    /\ Len(game.drivers) > 0
    /\ game.sessionID # None
    /\ (call # <<>> /\ LastPacket.header.packetId \in PerDriverIds) =>
         \E i \in 1..Len(ret) :
           /\ ret[i].measurement = MeasurementOf(LastPacket.header.packetId)
           /\ "driver" \in DOMAIN ret[i].tags

\* C24: the sessionId tag of a record is the identity of the session of its
\* own source packet: the records of a SESSION packet have the identity held
\* for the raw id of that packet, and a packet of another type whose header
\* has another raw id than the one remembered from the last SESSION packet
\* gives no record tagged with the identity of that remembered session.
C24_TagOfOwnSession ==
  call # <<>> =>
    /\ LastIs(SESSION) =>
         /\ game.sessionIDBrut = Some(LastPacket.header.sessionUID)
         /\ \A i \in 1..Len(ret) : ret[i].tags.sessionId = game.sessionID
    /\ (~LastIs(SESSION) /\ Some(LastPacket.header.sessionUID) # game.sessionIDBrut) =>
         \A i \in 1..Len(ret) : ret[i].tags.sessionId # game.sessionID

\* C25: in the list processParticipant returns while Ready for k >= 2 active
\* cars, the driver tag of the i-th ParticipantData record is the name of car
\* slot i: building the later records does not change the tags of a record
\* already appended.
C25_DriverTagOfOwnSlot ==
  (LastIs(PARTICIPANTS) /\ LastPacket.numActiveCars >= 2 /\ ret # <<>>) =>
    /\ Len(ret) = LastPacket.numActiveCars
    /\ \A i \in 1..Len(ret) :
         /\ ret[i].measurement = "ParticipantData"
         /\ ret[i].tags.driver = decode(LastPacket.participants[i])

\* C5: once the readiness gate is true it is true in every later state.
C5_GateNeverResets == [][game.init => game'.init]_vars

\* C5 witness: the gate is true although the roster is empty again and a
\* second session has begun.
C5_Witness ==
  /\ game.init
  /\ game.drivers = <<>>
  /\ Len(sessions) >= 2

\* The readiness gate as a packet arriving now would find it.
ReadyAtArrival == game.init \/ (Len(game.drivers) > 0 /\ game.sessionID # None)

\* What C6 says of one tracker call.
C6_ParticipantsStep ==
  (call' # <<>> /\ call'[1].packet.header.packetId = PARTICIPANTS) =>
    LET packet == call'[1].packet
        k == packet.numActiveCars
    IN
    /\ Len(game'.drivers) = k
    /\ \A i \in 1..k : game'.drivers[i] = decode(packet.participants[i])
    /\ ReadyAtArrival =>
         /\ Len(ret') = k
         /\ \A i \in 1..k :
              /\ ret'[i].measurement = "ParticipantData"
              /\ ret'[i].fields = CarFields(packet, "participants", i - 1)
    /\ ~ReadyAtArrival => ret' = <<>>

\* C6: a PARTICIPANTS packet with numActiveCars = k leaves a roster of the k
\* names of car slots 0..k-1 in slot order, Ready or not; Ready at arrival,
\* it returns k ParticipantData records, the i-th from car slot i.
C6_RosterRebuilt == [][C6_ParticipantsStep]_vars

\* C6 witness: a PARTICIPANTS packet with two active cars was processed
\* while Ready (so over an earlier roster) and returned two records.
C6_Witness ==
  /\ LastIs(PARTICIPANTS)
  /\ LastPacket.numActiveCars = 2
  /\ Len(ret) = 2
  /\ Len(game.drivers) = 2

\* C9: a datagram read error does not terminate the Listener: after a failed
\* read its loop is still running (or has stopped on a quit request).
C9_ListenerSurvivesReadError ==
  readError => rx_pc # "crashed"

\* C10: a Sink write failure is fatal to its flush iteration only: after
\* it the Flush Loop is still running (or has stopped on a quit request).
C10_FlushLoopSurvivesWriteError ==
  writeError => rec_pc # "crashed"

\* The composite a SESSION packet arriving at that time would be named by.
Composite(packet, time) ==
  <<strftimeMinutes(time), TrackIDs(packet.trackId), str(packet.m_formula)>>

\* What C7 says of one tracker call.
C7_Step ==
  call' # <<>> =>
    LET packet == call'[1].packet IN
    /\ (packet.header.packetId = SESSION
         /\ Some(packet.header.sessionUID) = game.sessionIDBrut)
        => game'.sessionID = game.sessionID
    /\ packet.header.packetId # SESSION
        => /\ game'.sessionID = game.sessionID
           /\ game'.sessionIDBrut = game.sessionIDBrut

\* C7: a SESSION packet with the raw id seen last leaves SessionIdentity as
\* it was, whatever its arrival time, track and formula; no other packet
\* changes SessionIdentity or the remembered raw id.
C7_IdentityOnlyOnNewRawId == [][C7_Step]_vars

\* C7 witness: a SESSION packet with the remembered raw id was processed
\* whose own minute, track and formula would give another identity.
C7_Witness ==
  /\ LastIs(SESSION)
  /\ Len(sessions) = 1
  /\ game.sessionID # Some(Composite(LastPacket, LastTime))
  /\ game.sessionIDBrut = Some(LastPacket.header.sessionUID)

\* C8 (as claimed): the identity a session boundary produces differs from
\* the identity held before and from that of every earlier session.
C8_NewIdentityIsFresh ==
  \A i, j \in 1..Len(sessions) : i < j => sessions[i] # sessions[j]

\* What the amended C8 says of one tracker call.
C8_Step ==
  (/\ call' # <<>>
   /\ call'[1].packet.header.packetId = SESSION
   /\ Some(call'[1].packet.header.sessionUID) # game.sessionIDBrut)
  => /\ game'.sessionID = Some(Composite(call'[1].packet, call'[1].time))
     /\ game'.sessionIDBrut = Some(call'[1].packet.header.sessionUID)

\* C8 (amended): a SESSION packet with a raw id other than the remembered one
\* sets SessionIdentity to the composite of its own arrival minute, track
\* and formula and remembers its raw id.
C8_NewIdentityIsComposite == [][C8_Step]_vars

\* C8 witness: a second session has begun and its identity is that of its
\* own first SESSION packet, another one than the first session's.
C8_Witness ==
  /\ LastIs(SESSION)
  /\ Len(sessions) = 2
  /\ sessions[2] # sessions[1]
  /\ game.sessionID = Some(Composite(LastPacket, LastTime))

====
